---- MODULE Spec2Model ----
(***************************************************************************)
(* Outlook Draft Creator (src/main.py): the credential manager, the draft  *)
(* submitter, the personalization augmenter, the template renderer, the    *)
(* result logger and the batch loop of main(), as a state machine.         *)
(*                                                                         *)
(* A text (a Python str built by rendering or concatenation) is a sequence *)
(* of non-empty chunks; concatenation is \o.  A plain str is a TLA+ string.*)
(* Python's None is the string "None"; a missing dict key is a field that  *)
(* the record does not have.                                               *)
(***************************************************************************)
EXTENDS Integers, Sequences, FiniteSets, TLC

\* ------------------------------------------------------------------ bounds
MaxContacts == 3
MaxRuns == 2
MaxCalls == 3
MaxRerunContacts == 2
MaxFairContacts == 2
MaxAiContacts == 2

\* --------------------------------------------------------------- constants
None == "None"
delay_ms == 1000
HTTP_CREATED == 201
HTTP_OK == 200
MAX_PERSONALIZATION == 200
TRUNCATED_PREFIX == 197

\* ------------------------------------------------------------ input domains
Tokens == {"tokA", "tokB"}

\* One spreadsheet row as pandas hands it over: an empty cell is NaN.
NaN == "NaN"
ContactSet ==
  { [email |-> "a@x.org", company |-> "Acme", first_name |-> "Ann"],
    [email |-> NaN,       company |-> "Acme", first_name |-> "Bob"],
    [email |-> "b@x.org", company |-> NaN,    first_name |-> NaN] }

\* A sheet with a column whose header is a number, not a string: the rows
\* carry it as the key NonStringKey.
NonStringKey == "<2024>"
BadSheetSet ==
  { [email |-> "a@x.org", company |-> "Acme", first_name |-> "Ann"]
      @@ (NonStringKey :> "7"),
    [email |-> NaN,       company |-> "Acme", first_name |-> "Bob"]
      @@ (NonStringKey :> NaN) }

ListsOver(rows, n) == UNION { [1..k -> rows] : k \in 0..n }

ContactLists == ListsOver(ContactSet, MaxContacts) \cup
                ListsOver(BadSheetSet, MaxContacts)

\* What requests.post can do for POST /me/messages: raise, or answer with a
\* status code and a body.
MailBodies ==
  {"not json", "{}", "{\"id\": \"AAMk-example\"}", "{\"id\": \"\"}", "{\"id\": null}"}
MailResponses ==
  { [kind |-> "exception", status |-> 0, body |-> "timeout"] } \cup
  { [kind |-> "http", status |-> s, body |-> b] :
      s \in {HTTP_CREATED, 429}, b \in MailBodies }

\* What requests.post can do for the chat-completion request.
AiResponses ==
  { [kind |-> "exception", status |-> 0,       content |-> <<>>],
    [kind |-> "http",      status |-> 500,     content |-> <<>>],
    [kind |-> "malformed", status |-> HTTP_OK, content |-> <<>>],
    [kind |-> "http",      status |-> HTTP_OK, content |-> <<" ", "H", "i", " ">>] }

\* Completions around the length limit, one character per element, with
\* white space around them.
Xs(n) == [i \in 1..n |-> "x"]
LongAiResponses ==
  { [kind |-> "http", status |-> HTTP_OK,
     content |-> <<" ">> \o Xs(n) \o <<" ">>] :
      n \in {MAX_PERSONALIZATION - 1, MAX_PERSONALIZATION,
              MAX_PERSONALIZATION + 1, MAX_PERSONALIZATION + 5} }

\* ------------------------------------------------------------------- texts
Text(s) == IF s = "" THEN <<>> ELSE <<s>>

RECURSIVE Strip(_)
Strip(t) ==
  IF t = <<>> THEN <<>>
  ELSE IF Head(t) = " " THEN Strip(Tail(t))
  ELSE IF t[Len(t)] = " " THEN Strip(SubSeq(t, 1, Len(t) - 1))
  ELSE t

\* ----------------------------------------------------------- row handling
Get(d, key, default) == IF key \in DOMAIN d THEN d[key] ELSE default

\* Mutant: the NaN cells are left as they are.
Normalize_KeepNaN(row) == row

\* main, lines 258-263: NaN cells become empty strings.
Normalize(row) == [k \in DOMAIN row |-> IF row[k] = NaN THEN "" ELSE row[k]]

\* ------------------------------------------------------- template renderer
SUBJECT_TEXT ==
  << <<"lit", "PASTE YOUR SUBJECT HERE (you may include ">>,
     <<"var", "placeholders">>,
     <<"lit", ")">> >>

BODY_TEXT ==
  << <<"lit", "PASTE YOUR BODY HERE EXACTLY.\nYou may reference Excel fields like ">>,
     <<"var", "first_name">>, <<"lit", ", ">>,
     <<"var", "company">>,    <<"lit", ", ">>,
     <<"var", "role">>,       <<"lit", ", ">>,
     <<"var", "observation">>,
     <<"lit", ".\nIf you don't want placeholders, leave plain text.">>,
     <<"lit", "\n">> >>

RECURSIVE RenderParts(_, _)
RenderParts(parts, row) ==
  IF parts = <<>> THEN <<>>
  ELSE LET p == Head(parts)
           s == IF p[1] = "lit" THEN p[2] ELSE Get(row, p[2], "")
       IN Text(s) \o RenderParts(Tail(parts), row)

\* Jinja2 drops one trailing newline of the template source.
DropTrailingNewline(parts) ==
  IF parts # <<>> /\ parts[Len(parts)] = <<"lit", "\n">>
  THEN SubSeq(parts, 1, Len(parts) - 1)
  ELSE parts

\* The template text itself, placeholders unrendered.
RECURSIVE RawText(_)
RawText(parts) ==
  IF parts = <<>> THEN <<>>
  ELSE LET p == Head(parts)
       IN (IF p[1] = "lit" THEN <<p[2]>> ELSE <<"{{", p[2], "}}">>)
            \o RawText(Tail(parts))

\* template.render(**row_data), line 197, raises TypeError when a key of
\* row_data is no string.
RenderRaises(row_data) == NonStringKey \in DOMAIN row_data

\* render_template, lines 193-200.
render_template(template_text, row_data) ==
  IF RenderRaises(row_data)
  THEN RawText(template_text)
  ELSE RenderParts(DropTrailingNewline(template_text), row_data)

\* ------------------------------------------------------ credential manager
\* The msal token cache: whether it holds an account, and the access token
\* of its session.
EmptyCache == [account |-> FALSE, at |-> None]

\* A file on disk: whether os.path.exists finds it (lines 54, 206) and what
\* it holds. A file that was opened but never written exists and is empty.
NoFile == [exists |-> FALSE, lines |-> <<>>]
EmptyFile == [exists |-> TRUE, lines |-> <<>>]
File(lines) == [exists |-> TRUE, lines |-> lines]

\* SerializableTokenCache.serialize / deserialize: the blob is a sequence of
\* strings; an empty blob gives an empty cache, and a blob that is only a
\* first part of a serialized cache cannot be parsed.
Serialize(cache) == <<IF cache.account THEN "account" ELSE "no-account", cache.at>>
DeserializeRaises(blob) == blob # <<>> /\ Len(blob) < Len(Serialize(EmptyCache))
Deserialize(blob) ==
  IF blob = <<>> THEN EmptyCache
  ELSE [account |-> blob[1] = "account", at |-> blob[2]]

\* _load_token_cache, lines 52-57.
LoadTokenCache(file) == IF file.exists THEN Deserialize(file.lines) ELSE EmptyCache

\* _save_token_cache, lines 59-63: the file once it is written and closed.
SaveTokenCache(cache) == File(Serialize(cache))

\* _save_token_cache stopped after open(.., "w") on line 62 and before the
\* whole blob of line 63 is on the disk: the file is truncated and holds
\* nothing, or a first part of the blob.
CutCacheFiles(cache) ==
  {File(SubSeq(Serialize(cache), 1, k)) : k \in 0 .. Len(Serialize(cache)) - 1}

\* The constructor, lines 40-50: _load_token_cache raises out of it, and so
\* out of main on line 247, when the cache file cannot be parsed.
ConstructorRaises(file) == file.exists /\ DeserializeRaises(file.lines)

\* app.get_accounts(), line 68: truthy when the cache holds an account.
HasAccounts(cache) == cache.account

\* The cache after an acquisition that yielded token t.
Acquired(cache, t) == [account |-> TRUE, at |-> t]

\* authenticate, lines 65-92.  silent: what acquire_token_silent returns
\* (None or a token); flow_ok: "user_code" in flow; device: the access token
\* of acquire_token_by_device_flow, None when it has none.
\* The result: what the call returns, the fields of the object afterwards,
\* whether the cache file is written and whether the device flow was started.
\* Mutant: the silent acquisition is never relied on.
SilentSucceeds_Never(cache, silent) == FALSE

SilentSucceeds(cache, silent) == HasAccounts(cache) /\ silent # None

\* Mutant: the device-flow path forgets to write the cache file.
authenticate_DeviceFlowNotSaved(token, cache, silent, flow_ok, device) ==
  IF SilentSucceeds(cache, silent)
  THEN [ret |-> TRUE, access_token |-> silent,
        token_cache |-> Acquired(cache, silent),
        save |-> TRUE, device_flow |-> FALSE]
  ELSE IF ~flow_ok
  THEN [ret |-> FALSE, access_token |-> token, token_cache |-> cache,
        save |-> FALSE, device_flow |-> TRUE]
  ELSE IF device # None
  THEN [ret |-> TRUE, access_token |-> device,
        token_cache |-> Acquired(cache, device),
        save |-> FALSE, device_flow |-> TRUE]
  ELSE [ret |-> FALSE, access_token |-> token, token_cache |-> cache,
        save |-> FALSE, device_flow |-> TRUE]

authenticate(token, cache, silent, flow_ok, device) ==
  IF SilentSucceeds(cache, silent)
  THEN [ret |-> TRUE, access_token |-> silent,
        token_cache |-> Acquired(cache, silent),
        save |-> TRUE, device_flow |-> FALSE]
  ELSE IF ~flow_ok
  THEN [ret |-> FALSE, access_token |-> token, token_cache |-> cache,
        save |-> FALSE, device_flow |-> TRUE]
  ELSE IF device # None
  THEN [ret |-> TRUE, access_token |-> device,
        token_cache |-> Acquired(cache, device),
        save |-> TRUE, device_flow |-> TRUE]
  ELSE [ret |-> FALSE, access_token |-> token, token_cache |-> cache,
        save |-> FALSE, device_flow |-> TRUE]

\* --------------------------------------------------------- draft submitter
\* response.json(), line 127: raises on a body that is no JSON.
JsonFails(body) == body = "not json"
Json(body) ==
  CASE body = "{}" -> [other |-> ""]
    [] body = "{\"id\": \"\"}" -> [id |-> ""]
    [] body = "{\"id\": null}" -> [id |-> None]
    [] OTHER -> [id |-> "AAMk-example"]

StatusText(status) == IF status = HTTP_CREATED THEN "201" ELSE "429"

\* `not self.access_token`, line 96.
NoToken(token) == token = None \/ token = ""

\* Mutant: only transport errors are caught, so a 201 whose body is no JSON
\* raises out of create_draft.
Classify_JsonErrorRaises(resp) ==
  IF resp.kind = "exception"
  THEN [status |-> "error", error |-> <<resp.body>>]
  ELSE IF resp.status = HTTP_CREATED
  THEN IF JsonFails(resp.body)
       THEN [status |-> "raised"]
       ELSE [status |-> "success",
             draft_id |-> Get(Json(resp.body), "id", "unknown"),
             error |-> <<>>]
  ELSE [status |-> "error",
        error |-> <<"HTTP ", StatusText(resp.status), ": ", resp.body>>]

\* Mutant: every answered request counts as a created draft.
Classify_AnyStatusSucceeds(resp) ==
  IF resp.kind = "exception"
  THEN [status |-> "error", error |-> <<resp.body>>]
  ELSE [status |-> "success", draft_id |-> "unknown", error |-> <<>>]

\* The outcome of one answered request, lines 126-143.
Classify(resp) ==
  IF resp.kind = "exception"
  THEN [status |-> "error", error |-> <<resp.body>>]
  ELSE IF resp.status = HTTP_CREATED
  THEN IF JsonFails(resp.body)
       THEN [status |-> "error", error |-> <<"JSONDecodeError">>]
       ELSE [status |-> "success",
             draft_id |-> Get(Json(resp.body), "id", "unknown"),
             error |-> <<>>]
  ELSE [status |-> "error",
        error |-> <<"HTTP ", StatusText(resp.status), ": ", resp.body>>]

\* Mutant: the request is issued before the token is looked at.
RequestsIssued_Always(token) == 1

\* How many requests one call issues, lines 96-124.
RequestsIssued(token) == IF NoToken(token) THEN 0 ELSE 1

\* create_draft, lines 94-143.
create_draft(token, email, subject, body, resp) ==
  IF NoToken(token)
  THEN [status |-> "error", error |-> <<"No access token">>]
  ELSE Classify(resp)

\* The request body, lines 104-117.
Payload(email, subject, body) ==
  [subject |-> subject, content |-> body, address |-> email]

\* -------------------------------------------------- personalization augmenter
\* personalize_with_ai, lines 145-190.  key: OPENAI_API_KEY is set.
\* Mutant: the ellipsis is appended to the first 200 characters.
Truncate_KeepsLimit(p) ==
  IF Len(p) > MAX_PERSONALIZATION
  THEN SubSeq(p, 1, MAX_PERSONALIZATION) \o <<".", ".", ".">>
  ELSE p

\* Lines 183-184, one character per element.
Truncate(p) ==
  IF Len(p) > MAX_PERSONALIZATION
  THEN SubSeq(p, 1, TRUNCATED_PREFIX) \o <<".", ".", ".">>
  ELSE p

AiCallsIssued(key) == IF key THEN 1 ELSE 0

\* Lines 187-188: the only print of the augmenter is in the except clause,
\* reached when requests.post raises or the 200 body has not the expected shape.
AiErrorsLogged(key, resp) ==
  IF key /\ resp.kind \in {"exception", "malformed"} THEN 1 ELSE 0

\* Mutant: the request is made whether or not a key is configured.
personalize_with_ai_IgnoresKey(key, resp) ==
  IF resp.kind = "http" /\ resp.status = HTTP_OK
  THEN <<"\n\n">> \o Truncate(Strip(resp.content))
  ELSE <<>>

personalize_with_ai(key, resp) ==
  IF ~key THEN <<>>
  ELSE IF resp.kind = "http" /\ resp.status = HTTP_OK
  THEN <<"\n\n">> \o Truncate(Strip(resp.content))
  ELSE <<>>

\* ------------------------------------------------------------ result logger
\* One field as csv.writer writes it (line 214): None is written as the
\* empty field.
Cell(s) == <<IF s = None THEN "" ELSE s>>
HeaderRow == <<Cell("email"), Cell("company"), Cell("first_name"),
               Cell("subject"), Cell("draft_id"), Cell("status")>>

\* Mutant: the file is opened for writing, not for appending.
log_result_Overwrites(file, email, company, first_name, subject, draft_id, status) ==
  File(<<HeaderRow,
         <<Cell(email), Cell(company), Cell(first_name), subject,
           Cell(draft_id), Cell(status)>> >>)

\* Mutant: the draft id and the status are written in each other's column.
log_result_SwapsIdAndStatus(file, email, company, first_name, subject, draft_id, status) ==
  LET row == <<Cell(email), Cell(company), Cell(first_name), subject,
               Cell(status), Cell(draft_id)>>
  IN File(file.lines \o (IF file.exists THEN <<>> ELSE <<HeaderRow>>) \o <<row>>)

\* Mutant: the header is written on every call.
log_result_HeaderEveryTime(file, email, company, first_name, subject, draft_id, status) ==
  File(file.lines \o <<HeaderRow,
                         <<Cell(email), Cell(company), Cell(first_name), subject,
                           Cell(draft_id), Cell(status)>> >>)

\* The rows one call of log_result writes, in order (lines 211-214): the
\* header when the file did not exist on line 206, then the row.
LogWrites(file, email, company, first_name, subject, draft_id, status) ==
  (IF file.exists THEN <<>> ELSE <<HeaderRow>>) \o
  << <<Cell(email), Cell(company), Cell(first_name), subject,
       Cell(draft_id), Cell(status)>> >>

\* log_result, lines 203-214: the file after the call.
log_result(file, email, company, first_name, subject, draft_id, status) ==
  File(file.lines \o
       LogWrites(file, email, company, first_name, subject, draft_id, status))

\* The data rows of a log file: its rows but for a leading header.
DataRows(file) ==
  IF file.lines # <<>> /\ Head(file.lines) = HeaderRow
  THEN Tail(file.lines) ELSE file.lines

\* ------------------------------------------------------- batch orchestrator
\* Mutant: no contact is skipped.
SkipContact_Never(email) == FALSE

\* `if not email`, line 277.
SkipContact(email) == email = ""

\* Mutant: no pause at all.
MoreRemain_Never(index, n) == FALSE

\* Mutant: the row before the last one is taken for the last.
MoreRemain_OffByOne(index, n) == index < n - 2

\* Mutant: the pause follows the last row too.
MoreRemain_Always(index, n) == index < n

\* Mutant: the loop steps over a row.
NextIndex_SkipsOne(index) == index + 2

\* `for index, row in df.iterrows()`, line 257: the next row.
NextIndex(index) == index + 1

\* `if index < len(df) - 1`, line 301.
MoreRemain(index, n) == index < n - 1

\* ---------------------------------------------------------------- the state
VARIABLES
  contacts,        \* df: the rows read from the sheet, in order
  ai_personalize,  \* args.ai_personalize
  openai_api_key,  \* whether OPENAI_API_KEY is set
  pc,              \* where main is: authenticate, loop, submit, log, pace,
                   \* done (line 306) or exit (the return of line 252)
  auth_ok,         \* what creator.authenticate() returned to main
  run,             \* which run of the program this is
  index,           \* the loop's index: the position of the current row, from 0
  subject,         \* main's local subject
  body,            \* main's local body
  result,          \* main's local result
  access_token,    \* creator.access_token
  token_cache,     \* creator.app.token_cache
  cache_file,      \* the content of token_cache.bin
  log_file,        \* the content of the audit log
  events,          \* what this run did, in order: <<what, row index>>
  slept,           \* the milliseconds this run spent in time.sleep
  requests,        \* how many POST /me/messages this process issued
  ai_calls,        \* how many chat-completion requests this process issued
  ai_errors,       \* how many "AI personalization failed" lines it printed
  device_flows,    \* how many device flows this process initiated
  cache_writes,    \* how many times this process wrote token_cache.bin
  log_start,       \* the number of data rows in the log when this run began
  calls,           \* how many methods were called on the creator
  last_call        \* the latest method call on the creator and what it saw

vars == <<contacts, ai_personalize, openai_api_key, pc, auth_ok, run, index, subject,
          body, result, access_token, token_cache, cache_file, log_file,
          events, slept, requests, ai_calls, ai_errors, device_flows,
          cache_writes, log_start, calls, last_call>>

config == <<contacts, ai_personalize, openai_api_key>>
creator == <<access_token, token_cache, cache_file, device_flows, cache_writes>>
locals == <<subject, body, result>>

NoCall == [op |-> "none"]
NoResult == [status |-> None]

\* A credential cache left by an earlier session.
CachedSession == File(Serialize([account |-> TRUE, at |-> "tokA"]))

\* The state once main has read its input and built the creator (line 247).
\* A key is configured only where personalization is asked for, and a run
\* that asks the generative service (personalization on, with a key) has a
\* sheet of at most MaxAiContacts rows.
Init ==
  /\ contacts \in ContactLists
  /\ ai_personalize \in BOOLEAN
  /\ openai_api_key \in BOOLEAN
  /\ openai_api_key => ai_personalize
  /\ (ai_personalize /\ openai_api_key) => Len(contacts) <= MaxAiContacts
  /\ cache_file \in {NoFile, CachedSession}
  /\ token_cache = LoadTokenCache(cache_file)
  /\ access_token = None
  /\ log_file = NoFile
  /\ pc = "authenticate"
  /\ auth_ok = None
  /\ run = 1
  /\ index = 0
  /\ subject = <<>> /\ body = <<>> /\ result = NoResult
  /\ events = <<>> /\ slept = 0
  /\ requests = 0 /\ ai_calls = 0 /\ ai_errors = 0 /\ device_flows = 0 /\ cache_writes = 0
  /\ log_start = 0 /\ calls = 0
  /\ last_call = NoCall

\* One call of creator.authenticate() with the given answers of msal.
DoAuthenticate(silent, flow_ok, device) ==
  LET r == authenticate(access_token, token_cache, silent, flow_ok, device)
  IN /\ access_token' = r.access_token
     /\ token_cache' = r.token_cache
     /\ cache_file' = IF r.save THEN SaveTokenCache(r.token_cache) ELSE cache_file
     /\ cache_writes' = cache_writes + (IF r.save THEN 1 ELSE 0)
     /\ device_flows' = device_flows + (IF r.device_flow THEN 1 ELSE 0)
     /\ calls' = calls + 1
     /\ last_call' = [op |-> "authenticate", ret |-> r.ret,
                      had_account |-> HasAccounts(token_cache),
                      silent |-> silent,
                      device_flow |-> r.device_flow,
                      flows_before |-> device_flows,
                      token_before |-> access_token,
                      file_before |-> cache_file,
                      writes_before |-> cache_writes]

\* One call of creator.create_draft(email, subject, body) answered by resp.
DoCreateDraft(email, subj, bod, resp) ==
  /\ result' = create_draft(access_token, email, subj, bod, resp)
  /\ requests' = requests + RequestsIssued(access_token)
  /\ calls' = calls + 1
  /\ last_call' = [op |-> "create_draft", resp |-> resp,
                   token |-> access_token,
                   payload |-> Payload(email, subj, bod),
                   requests_before |-> requests,
                   file_before |-> cache_file,
                   writes_before |-> cache_writes]

\* Mutant: main ignores what authenticate() returned.
AfterAuthenticate_Ignored(ret) == "loop"

\* `if not creator.authenticate(): return`, lines 250-252.
AfterAuthenticate(ret) == IF ret THEN "loop" ELSE "exit"

\* What msal answers in a run of main: acquire_token_silent (line 72) gives
\* the token of the cached session or nothing, the device flow (line 82) a
\* new token or nothing.
SilentAnswers == {"tokA", None}

DeviceAnswers == {"tokB", None}

\* main, lines 249-254.
Authenticate ==
  /\ pc = "authenticate"
  /\ \E silent \in SilentAnswers, flow_ok \in BOOLEAN,
        device \in DeviceAnswers :
       /\ DoAuthenticate(silent, flow_ok, device)
       /\ auth_ok' = IF last_call'.ret THEN "True" ELSE "False"
       /\ pc' = AfterAuthenticate(last_call'.ret)
  /\ UNCHANGED <<config, run, index, locals, log_file, events, slept,
                 requests, ai_calls, ai_errors, log_start>>

\* main, lines 257-279: normalize, render, augment, and the email test.
Prepare ==
  /\ pc = "loop"
  /\ index < Len(contacts)
  /\ LET row_data == Normalize(contacts[index + 1])
         email == Get(row_data, "email", "")
     IN /\ subject' = render_template(SUBJECT_TEXT, row_data)
        /\ \E resp \in AiResponses :
             /\ body' = render_template(BODY_TEXT, row_data) \o
                          (IF ai_personalize
                           THEN personalize_with_ai(openai_api_key, resp)
                           ELSE <<>>)
             /\ ai_errors' = ai_errors +
                  (IF ai_personalize
                   THEN AiErrorsLogged(openai_api_key, resp) ELSE 0)
        /\ ai_calls' = ai_calls +
             (IF ai_personalize THEN AiCallsIssued(openai_api_key) ELSE 0)
        /\ IF SkipContact(email)
           THEN /\ events' = Append(events, <<"skip", index>>)
                /\ index' = NextIndex(index)
                /\ pc' = "loop"
           ELSE /\ pc' = "submit"
                /\ UNCHANGED <<events, index>>
  /\ UNCHANGED <<config, auth_ok, run, result, creator, log_file, slept, requests,
                 log_start, calls, last_call>>

\* main, lines 281-282.
Submit ==
  /\ pc = "submit"
  /\ LET email == Get(Normalize(contacts[index + 1]), "email", "")
     IN \E resp \in MailResponses : DoCreateDraft(email, subject, body, resp)
  /\ events' = IF requests' > requests
               THEN Append(events, <<"request", index>>)
               ELSE events
  /\ pc' = "log"
  /\ UNCHANGED <<config, auth_ok, run, index, subject, body, creator, log_file, slept,
                 ai_calls, ai_errors, log_start>>

\* main, lines 284-298.
Log ==
  /\ pc = "log"
  /\ LET row_data == Normalize(contacts[index + 1])
     IN log_file' = log_result(log_file,
                               Get(row_data, "email", ""),
                               Get(row_data, "company", ""),
                               Get(row_data, "first_name", ""),
                               subject,
                               Get(result, "draft_id", ""),
                               result["status"])
  /\ events' = Append(events, <<"log", index>>)
  /\ pc' = "pace"
  /\ UNCHANGED <<config, auth_ok, run, index, locals, creator, slept, requests,
                 ai_calls, ai_errors, log_start, calls, last_call>>

\* main, lines 300-304, and the loop's step to the next row.
Pace ==
  /\ pc = "pace"
  /\ IF MoreRemain(index, Len(contacts))
     THEN /\ slept' = slept + delay_ms
          /\ events' = Append(events, <<"sleep", index>>)
     ELSE UNCHANGED <<slept, events>>
  /\ index' = NextIndex(index)
  /\ pc' = "loop"
  /\ UNCHANGED <<config, auth_ok, run, locals, creator, log_file, requests, ai_calls, ai_errors,
                 log_start, calls, last_call>>

\* main, line 306: the loop is exhausted.
Finish ==
  /\ pc = "loop"
  /\ index >= Len(contacts)
  /\ pc' = "done"
  /\ UNCHANGED <<config, auth_ok, run, index, locals, creator, log_file, events, slept,
                 requests, ai_calls, ai_errors, log_start, calls, last_call>>

\* The program is started again on the same sheet, log and cache file
\* (lines 228-247): a new creator, whose cache is loaded from the file, or
\* no creator and the end of the run when the file cannot be parsed.
Restart ==
  /\ pc \in {"done", "exit", "killed", "crashed"}
  /\ run < MaxRuns
  /\ run' = run + 1
  /\ pc' = IF ConstructorRaises(cache_file) THEN "crashed" ELSE "authenticate"
  /\ auth_ok' = None
  /\ access_token' = None
  /\ token_cache' = IF ConstructorRaises(cache_file) THEN EmptyCache
                    ELSE LoadTokenCache(cache_file)
  /\ index' = 0
  /\ subject' = <<>> /\ body' = <<>> /\ result' = NoResult
  /\ events' = <<>> /\ slept' = 0
  /\ log_start' = Len(DataRows(log_file))
  /\ calls' = 0
  /\ last_call' = NoCall
  /\ requests' = 0 /\ ai_calls' = 0 /\ ai_errors' = 0
  /\ device_flows' = 0 /\ cache_writes' = 0
  /\ UNCHANGED <<config, cache_file, log_file>>

\* One run of the program.
Next == Authenticate \/ Prepare \/ Submit \/ Log \/ Pace \/ Finish

Spec == Init /\ [][Next]_vars

\* One run of the program on a sheet of at most MaxFairContacts rows, never
\* interrupted: a step that can be taken is taken in the end.
FairInit == Init /\ Len(contacts) <= MaxFairContacts

FairSpec == FairInit /\ [][Next]_vars /\ WF_vars(Next)

\* The process is interrupted between two steps: the batch halts where it is.
Interrupt ==
  /\ pc \in {"authenticate", "loop", "submit", "log", "pace"}
  /\ pc' = "killed"
  /\ UNCHANGED <<config, auth_ok, run, index, locals, creator, log_file,
                 events, slept, requests, ai_calls, ai_errors, log_start,
                 calls, last_call>>

\* The process is stopped inside authenticate (lines 65-92) but not inside
\* _save_token_cache: after initiate_device_flow (line 77), after msal has
\* acquired the token (lines 70, 85), after the token is stored (lines 72,
\* 86), or after the cache file is saved and before authenticate returns.
InterruptInAuthenticate ==
  /\ pc = "authenticate"
  /\ \E silent \in SilentAnswers, flow_ok \in BOOLEAN, device \in DeviceAnswers,
        at \in {"flow", "acquired", "stored", "saved"} :
       LET r == authenticate(access_token, token_cache, silent, flow_ok, device)
       IN /\ device_flows' = device_flows + (IF r.device_flow THEN 1 ELSE 0)
          /\ token_cache' = IF at # "flow" THEN r.token_cache ELSE token_cache
          /\ access_token' = IF at \in {"stored", "saved"}
                             THEN r.access_token ELSE access_token
          /\ cache_file' = IF at = "saved" /\ r.save
                           THEN SaveTokenCache(r.token_cache) ELSE cache_file
          /\ cache_writes' = cache_writes +
                               (IF at = "saved" /\ r.save THEN 1 ELSE 0)
  /\ pc' = "killed"
  /\ UNCHANGED <<config, auth_ok, run, index, locals, log_file, events, slept,
                 requests, ai_calls, ai_errors, log_start, calls, last_call>>

\* The process is stopped inside _save_token_cache (lines 62-63), which
\* authenticate calls on lines 73 and 85 once it holds the token: the file is
\* open for writing and the blob has not reached it, or only in part.
InterruptInSave ==
  /\ pc = "authenticate"
  /\ \E silent \in SilentAnswers, flow_ok \in BOOLEAN, device \in DeviceAnswers :
       LET r == authenticate(access_token, token_cache, silent, flow_ok, device)
       IN /\ r.save
          /\ access_token' = r.access_token
          /\ token_cache' = r.token_cache
          /\ cache_file' \in CutCacheFiles(r.token_cache)
          /\ cache_writes' = cache_writes + 1
          /\ device_flows' = device_flows + (IF r.device_flow THEN 1 ELSE 0)
  /\ pc' = "killed"
  /\ UNCHANGED <<config, auth_ok, run, index, locals, log_file, events, slept,
                 requests, ai_calls, ai_errors, log_start, calls, last_call>>

\* The process is stopped inside log_result (lines 208-214): the file is
\* open, so it exists, and of the rows the call writes those before the
\* stop are in it if the file got closed on the way out, none otherwise.
InterruptInLog ==
  /\ pc = "log"
  /\ LET row_data == Normalize(contacts[index + 1])
         writes == LogWrites(log_file,
                             Get(row_data, "email", ""),
                             Get(row_data, "company", ""),
                             Get(row_data, "first_name", ""),
                             subject,
                             Get(result, "draft_id", ""),
                             result["status"])
     IN \E k \in 0 .. Len(writes) - 1 :
          log_file' = File(log_file.lines \o SubSeq(writes, 1, k))
  /\ pc' = "killed"
  /\ UNCHANGED <<config, auth_ok, run, index, locals, creator, events, slept,
                 requests, ai_calls, ai_errors, log_start, calls, last_call>>

\* The process is stopped while a row is prepared (lines 258-273): after the
\* subject is rendered (line 266), after the body is (line 267), after the
\* chat-completion request is made (line 171), after its failure is printed
\* (line 188), or after the body is augmented (line 273).
InterruptInPrepare ==
  /\ pc = "loop"
  /\ index < Len(contacts)
  /\ LET row_data == Normalize(contacts[index + 1])
     IN \E resp \in AiResponses,
           at \in {"subject", "body", "request", "answer", "augmented"} :
          /\ subject' = render_template(SUBJECT_TEXT, row_data)
          /\ body' = IF at = "subject" THEN body
                     ELSE render_template(BODY_TEXT, row_data) \o
                            (IF at = "augmented" /\ ai_personalize
                             THEN personalize_with_ai(openai_api_key, resp)
                             ELSE <<>>)
          /\ ai_calls' = ai_calls +
               (IF at \in {"request", "answer", "augmented"} /\ ai_personalize
                THEN AiCallsIssued(openai_api_key) ELSE 0)
          /\ ai_errors' = ai_errors +
               (IF at \in {"answer", "augmented"} /\ ai_personalize
                THEN AiErrorsLogged(openai_api_key, resp) ELSE 0)
  /\ pc' = "killed"
  /\ UNCHANGED <<config, auth_ok, run, index, result, creator, log_file, events,
                 slept, requests, log_start, calls, last_call>>

\* The process is stopped inside create_draft once the request is made
\* (line 124) and before the call returns its result to main (line 282).
InterruptInSubmit ==
  /\ pc = "submit"
  /\ RequestsIssued(access_token) > 0
  /\ requests' = requests + RequestsIssued(access_token)
  /\ events' = Append(events, <<"request", index>>)
  /\ pc' = "killed"
  /\ UNCHANGED <<config, auth_ok, run, index, locals, creator, log_file, slept,
                 ai_calls, ai_errors, log_start, calls, last_call>>

\* The process is stopped inside time.sleep (line 304), before the loop
\* steps to the next row: any part of the pause has passed.
InterruptInPace ==
  /\ pc = "pace"
  /\ MoreRemain(index, Len(contacts))
  /\ slept' \in slept .. slept + delay_ms
  /\ events' = Append(events, <<"sleep", index>>)
  /\ pc' = "killed"
  /\ UNCHANGED <<config, auth_ok, run, index, locals, creator, log_file, requests,
                 ai_calls, ai_errors, log_start, calls, last_call>>

\* The sheets of at most MaxRerunContacts rows that list no address twice.
RerunSheets ==
  {l \in ListsOver(ContactSet, MaxRerunContacts) :
     \A i, j \in DOMAIN l : (i # j /\ l[i].email # NaN) => l[i].email # l[j].email}

\* The first run on such a sheet.
RerunInit ==
  /\ Init
  /\ contacts \in RerunSheets

\* The program run up to MaxRuns times on the same files, each run to its
\* end or to an interruption.
RerunNext ==
  \/ Next
  \/ Interrupt
  \/ InterruptInAuthenticate
  \/ InterruptInSave
  \/ InterruptInPrepare
  \/ InterruptInSubmit
  \/ InterruptInLog
  \/ InterruptInPace
  \/ Restart

RerunSpec == RerunInit /\ [][RerunNext]_vars

\* ------------------------------------------------- the creator used directly
\* One OutlookDraftCreator whose methods are called in any order.
ApiInit ==
  /\ contacts = <<>>
  /\ ai_personalize = FALSE
  /\ openai_api_key \in BOOLEAN
  /\ cache_file \in {NoFile, CachedSession}
  /\ token_cache = LoadTokenCache(cache_file)
  /\ access_token = None
  /\ log_file = NoFile
  /\ pc = "api"
  /\ auth_ok = None
  /\ run = 1
  /\ index = 0
  /\ subject = <<>> /\ body = <<>> /\ result = NoResult
  /\ events = <<>> /\ slept = 0
  /\ requests = 0 /\ ai_calls = 0 /\ ai_errors = 0 /\ device_flows = 0 /\ cache_writes = 0
  /\ log_start = 0 /\ calls = 0
  /\ last_call = NoCall

ApiAuthenticate ==
  /\ pc = "api"
  /\ calls < MaxCalls
  /\ \E silent \in Tokens \cup {None}, flow_ok \in BOOLEAN,
        device \in Tokens \cup {None} :
       DoAuthenticate(silent, flow_ok, device)
  /\ UNCHANGED <<config, pc, auth_ok, run, index, locals, log_file, events, slept,
                 requests, ai_calls, ai_errors, log_start>>

ApiCreateDraft ==
  /\ pc = "api"
  /\ calls < MaxCalls
  /\ \E email \in {"a@x.org", "b@x.org"}, resp \in MailResponses :
       DoCreateDraft(email, Text("Hello"), Text("Body"), resp)
  /\ UNCHANGED <<config, pc, auth_ok, run, index, subject, body, creator, log_file,
                 events, slept, ai_calls, ai_errors, log_start>>

ApiPersonalize ==
  /\ pc = "api"
  /\ calls < MaxCalls
  /\ \E resp \in AiResponses \cup LongAiResponses :
       /\ body' = personalize_with_ai(openai_api_key, resp)
       /\ ai_errors' = ai_errors + AiErrorsLogged(openai_api_key, resp)
       /\ last_call' = [op |-> "personalize_with_ai", resp |-> resp,
                        ai_calls_before |-> ai_calls,
                        ai_errors_before |-> ai_errors,
                        file_before |-> cache_file,
                        writes_before |-> cache_writes]
  /\ ai_calls' = ai_calls + AiCallsIssued(openai_api_key)
  /\ calls' = calls + 1
  /\ UNCHANGED <<config, pc, auth_ok, run, index, subject, result, creator,
                 log_file, events, slept, requests, log_start>>

ApiRender ==
  /\ pc = "api"
  /\ calls < MaxCalls
  /\ \E row \in ContactSet, template \in {SUBJECT_TEXT, BODY_TEXT} :
       /\ subject' = render_template(template, Normalize(row))
       /\ last_call' = [op |-> "render_template", row |-> row,
                        template |-> template,
                        file_before |-> cache_file,
                        writes_before |-> cache_writes]
  /\ calls' = calls + 1
  /\ UNCHANGED <<config, pc, auth_ok, run, index, body, result, creator,
                 log_file, events, slept, requests, ai_calls, ai_errors, log_start>>

ApiLogResult ==
  /\ pc = "api"
  /\ calls < MaxCalls
  /\ \E email \in {"a@x.org", "b@x.org"},
        outcome \in {<<"AAMk-example", "success">>, <<"", "error">>} :
       /\ log_file' = log_result(log_file, email, "Acme", "Ann",
                                 Text("Hello"), outcome[1], outcome[2])
       /\ last_call' = [op |-> "log_result", email |-> email,
                        outcome |-> outcome,
                        log_before |-> log_file,
                        file_before |-> cache_file,
                        writes_before |-> cache_writes]
       /\ events' = Append(events, <<"log_result", email, outcome>>)
  /\ calls' = calls + 1
  /\ UNCHANGED <<config, pc, auth_ok, run, index, locals, creator,
                 slept, requests, ai_calls, ai_errors, log_start>>

ApiNext ==
  ApiAuthenticate \/ ApiCreateDraft \/ ApiPersonalize \/ ApiRender \/ ApiLogResult

ApiSpec == ApiInit /\ [][ApiNext]_vars

\* ------------------------------------------------------------------ claims
\* What the claims speak about, read off the input and the history, not
\* off the operators of the program.
HasEmail(i) == contacts[i + 1].email # NaN
Indices == 0 .. Len(contacts) - 1
WithEmail == {i \in Indices : HasEmail(i)}
Count(what, i) == Cardinality({k \in DOMAIN events : events[k] = <<what, i>>})
CountAll(what) == Cardinality({k \in DOMAIN events : events[k][1] = what})
RunRows == SubSeq(DataRows(log_file), log_start + 1, Len(DataRows(log_file)))
RowEmail(row) == row[1][1]
RowStatus(row) == row[6][1]

\* The emails of the contacts that have one, in list order.
RECURSIVE EmailsFrom(_)
EmailsFrom(i) ==
  IF i >= Len(contacts) THEN <<>>
  ELSE (IF HasEmail(i) THEN <<contacts[i + 1].email>> ELSE <<>>)
         \o EmailsFrom(i + 1)

\* C1: when a run that passed authentication has ended, the audit log holds
\* exactly one row of this run for each contact with an email, in list
\* order, none for the others, and every row's status is success or error.
C1_OneRowPerContactWithEmail ==
  (pc = "done" /\ auth_ok = "True") =>
    /\ \A i \in Indices : Count("log", i) = (IF HasEmail(i) THEN 1 ELSE 0)
    /\ Len(RunRows) = Cardinality(WithEmail)
    /\ [k \in DOMAIN RunRows |-> RowEmail(RunRows[k])] = EmailsFrom(0)
    /\ \A k \in DOMAIN RunRows : RowStatus(RunRows[k]) \in {"success", "error"}

C1_Witness ==
  /\ pc = "done" /\ auth_ok = "True"
  /\ Len(contacts) = 3 /\ Cardinality(WithEmail) = 2
  /\ \E j, k \in DOMAIN RunRows :
       RowStatus(RunRows[j]) = "success" /\ RowStatus(RunRows[k]) = "error"

\* C2: a contact without an email causes no draft request, no audit row and
\* no pause; all it leaves is its skip notice, and the counters of requests,
\* rows and sleep are those of the other contacts' events.
C2_SkippedContactDoesNothing ==
  /\ \A i \in Indices :
       ~HasEmail(i) =>
         /\ Count("request", i) = 0
         /\ Count("log", i) = 0
         /\ Count("sleep", i) = 0
         /\ Count("skip", i) = (IF i < index THEN 1 ELSE 0)
  /\ requests = CountAll("request")
  /\ Len(RunRows) = CountAll("log")
  /\ slept = delay_ms * CountAll("sleep")

C2_Witness ==
  /\ pc = "done" /\ Len(contacts) = 3
  /\ ~HasEmail(0) /\ HasEmail(1) /\ ~HasEmail(2)
  /\ events = <<(<<"skip", 0>>), <<"request", 1>>, <<"log", 1>>,
                <<"sleep", 1>>, <<"skip", 2>>>>

\* The scenario of C3: three contacts, only the second without an email.
C3_Scenario ==
  /\ Len(contacts) = 3
  /\ HasEmail(0) /\ ~HasEmail(1) /\ HasEmail(2)
  /\ pc = "done" /\ auth_ok = "True"

\* C3 as claimed: the scenario ends with two rows, one skip notice and two
\* pauses, 2 x delay in all.
C3_TwoPauses ==
  C3_Scenario =>
    /\ Len(RunRows) = 2
    /\ CountAll("skip") = 1
    /\ CountAll("sleep") = 2
    /\ slept = 2 * delay_ms

\* C3 as the code has it: the scenario ends with two rows, one skip notice
\* and one pause, after the first contact: 1 x delay in all.
C3_OnePause ==
  C3_Scenario =>
    /\ Len(RunRows) = 2
    /\ CountAll("skip") = 1
    /\ CountAll("sleep") = 1
    /\ Count("sleep", 0) = 1
    /\ slept = delay_ms

C3_Witness == C3_Scenario /\ Len(RunRows) = 2 /\ slept > 0

\* What a run has done when nothing of the batch has happened.
NothingDone ==
  /\ events = <<>> /\ index = 0
  /\ subject = <<>> /\ body = <<>> /\ result = NoResult
  /\ requests = 0 /\ ai_calls = 0 /\ slept = 0
  /\ log_file = NoFile

\* C4: a failed authentication ends the run before anything of the batch
\* happens, and nothing else ends it: a run that authenticated stops only
\* at the end of the list, every contact skipped or logged.
C4_OnlyAuthenticationStopsTheBatch ==
  /\ auth_ok = "False" => (pc = "exit" /\ NothingDone)
  /\ pc = "exit" => auth_ok = "False"
  /\ auth_ok = "True" =>
       /\ pc \in {"loop", "submit", "log", "pace", "done"}
       /\ pc # "done" => ENABLED Next
       /\ pc = "done" =>
            /\ index = Len(contacts)
            /\ \A i \in Indices : Count("skip", i) + Count("log", i) = 1

C4_Witness ==
  /\ pc = "exit" /\ auth_ok = "False"
  /\ Len(contacts) = 3 /\ WithEmail # {}
  /\ last_call.op = "authenticate" /\ last_call.device_flow

\* The events of a whole run, as the contact list alone determines them.
RECURSIVE ExpectedEvents(_)
ExpectedEvents(i) ==
  IF i >= Len(contacts) THEN <<>>
  ELSE (IF HasEmail(i)
        THEN <<(<<"request", i>>), <<"log", i>>>> \o
             (IF i + 1 < Len(contacts) THEN <<(<<"sleep", i>>)>> ELSE <<>>)
        ELSE <<(<<"skip", i>>)>>)
       \o ExpectedEvents(i + 1)

FailedResponse(resp) == resp.kind = "exception" \/ resp.status # 201

\* C5: a draft request answered by a status other than 201, or by a
\* transport error, gives its contact a row with status error, and the run
\* goes on as the contact list alone determines: whatever the answers, the
\* events so far are a prefix of the expected ones, and all of them at the end.
C5_SubmissionFailureIsIsolated ==
  /\ (pc = "pace" /\ FailedResponse(last_call.resp)) =>
        LET row == log_file.lines[Len(log_file.lines)]
        IN RowStatus(row) = "error" /\ RowEmail(row) = contacts[index + 1].email
  /\ auth_ok = "True" =>
       /\ Len(events) <= Len(ExpectedEvents(0))
       /\ events = SubSeq(ExpectedEvents(0), 1, Len(events))
       /\ pc = "done" => events = ExpectedEvents(0)

C5_Witness ==
  /\ pc = "done" /\ Len(contacts) = 3 /\ Cardinality(WithEmail) = 3
  /\ RowStatus(RunRows[1]) = "success"
  /\ RowStatus(RunRows[2]) = "error"
  /\ RowStatus(RunRows[3]) = "success"
  /\ slept = 2 * delay_ms

\* The latest call was create_draft, made with a token held.
DraftCallWithToken ==
  last_call.op = "create_draft" /\ last_call.token # None

IdBody == "{\"id\": \"AAMk-example\"}"
EmptyIdBody == "{\"id\": \"\"}"
NullIdBody == "{\"id\": null}"

\* C6 as claimed: create_draft answers every 201 with Success, carrying the
\* id of the response body, and everything else with Failure and a detail.
C6_Every201IsSuccess ==
  DraftCallWithToken =>
    IF last_call.resp.kind = "http" /\ last_call.resp.status = 201
    THEN /\ result.status = "success"
         /\ last_call.resp.body = IdBody => result.draft_id = "AAMk-example"
    ELSE result.status = "error" /\ result.error # <<>>

\* C6 as the code has it: create_draft never raises; a 201 whose body is a
\* JSON object gives Success with the body's id, or with "unknown" when the
\* body has none; a 201 whose body is no JSON, any other status and any
\* transport error give Failure with a detail: the status code and the
\* response text, or the description of the exception.
C6_SuccessNeedsJsonBody ==
  DraftCallWithToken =>
    LET resp == last_call.resp
    IN /\ result.status \in {"success", "error"}
       /\ (resp.kind = "http" /\ resp.status = 201 /\ resp.body = IdBody) =>
            (result.status = "success" /\ result.draft_id = "AAMk-example")
       /\ (resp.kind = "http" /\ resp.status = 201 /\ resp.body = "{}") =>
            (result.status = "success" /\ result.draft_id = "unknown")
       /\ (resp.kind = "http" /\ resp.status = 201 /\ resp.body = EmptyIdBody) =>
            (result.status = "success" /\ result.draft_id = "")
       /\ (resp.kind = "http" /\ resp.status = 201 /\ resp.body = NullIdBody) =>
            (result.status = "success" /\ result.draft_id = None)
       /\ (resp.kind = "http" /\ resp.status = 201 /\ resp.body = "not json") =>
            (result.status = "error" /\ result.error # <<>>)
       /\ (resp.kind = "http" /\ resp.status = 429) =>
            (result.status = "error" /\
             result.error = <<"HTTP ", "429", ": ", resp.body>>)
       /\ resp.kind = "exception" =>
            (result.status = "error" /\ result.error = <<resp.body>>)
       /\ result.status = "error" => "draft_id" \notin DOMAIN result

C6_Witness ==
  /\ DraftCallWithToken
  /\ last_call.resp.kind = "http" /\ last_call.resp.status = 201
  /\ last_call.resp.body = "not json"
  /\ result.status = "error"

\* C7: without a token create_draft returns Failure and issues no request;
\* with a token it issues exactly one request.
C7_OneRequestOnlyWithToken ==
  last_call.op = "create_draft" =>
    IF last_call.token = None
    THEN /\ requests = last_call.requests_before
         /\ result = [status |-> "error", error |-> <<"No access token">>]
    ELSE requests = last_call.requests_before + 1

C7_Witness ==
  /\ last_call.op = "create_draft" /\ last_call.token = None
  /\ last_call.resp.kind = "http" /\ last_call.resp.status = 201
  /\ result.status = "error" /\ requests = 0

\* C8: with a cached account and a token from the silent acquisition,
\* authenticate holds that token, writes the cache file and returns true
\* without starting the device flow; the device flow is started only with
\* no cached account or with nothing from the silent acquisition.
C8_SilentPathSkipsDeviceFlow ==
  last_call.op = "authenticate" =>
    /\ (last_call.had_account /\ last_call.silent # None) =>
          /\ last_call.ret
          /\ access_token = last_call.silent
          /\ cache_writes = last_call.writes_before + 1
          /\ cache_file.exists /\ cache_file.lines = Serialize(token_cache)
          /\ device_flows = last_call.flows_before
    /\ device_flows # last_call.flows_before =>
          /\ device_flows = last_call.flows_before + 1
          /\ ~last_call.had_account \/ last_call.silent = None
    /\ device_flows = last_call.flows_before =>
          (last_call.had_account /\ last_call.silent # None)

C8_Witness ==
  /\ last_call.op = "authenticate"
  /\ last_call.had_account /\ last_call.silent = "tokB"
  /\ last_call.ret /\ access_token = "tokB" /\ device_flows = 0

\* C9 as claimed: after an authenticate() that returned false no access
\* token is held, whatever calls came before.
C9_NoTokenAfterFailedAuthenticate ==
  (last_call.op = "authenticate" /\ ~last_call.ret) => access_token = None

\* C10: every authenticate() that returns true writes the cache file, with
\* the serialized cache; an authenticate() that returns false and every
\* other operation leave the file as it was.
C10_CacheFileWrittenOnlyOnSuccess ==
  last_call.op # "none" =>
    IF last_call.op = "authenticate" /\ last_call.ret
    THEN /\ cache_writes = last_call.writes_before + 1
         /\ cache_file.exists
         /\ cache_file.lines = Serialize(token_cache)
         /\ Deserialize(cache_file.lines).at = access_token
    ELSE /\ cache_writes = last_call.writes_before
         /\ cache_file = last_call.file_before

C10_Witness ==
  /\ last_call.op = "authenticate" /\ last_call.ret
  /\ last_call.device_flow
  /\ last_call.file_before.exists
  /\ cache_file # last_call.file_before
  /\ cache_writes = 2

\* The body a contact's row renders to, with nothing appended.
RenderedBody(i) == render_template(BODY_TEXT, Normalize(contacts[i + 1]))

\* C11: with no generative-service credential no chat-completion request
\* is ever issued and nothing is appended: the body held for submission,
\* and the body of every draft request, is the rendered body.
C11_NoKeyNoAugmentation ==
  ~openai_api_key =>
    /\ ai_calls = 0
    /\ pc \in {"submit", "log", "pace"} =>
         (body = RenderedBody(index) /\ \A k \in DOMAIN body : body[k] # "\n\n")
    /\ pc \in {"log", "pace"} =>
         last_call.payload.content = RenderedBody(index)

C11_Witness ==
  /\ ai_personalize /\ ~openai_api_key
  /\ pc = "pace" /\ index = 2
  /\ requests = 3 /\ ai_calls = 0
  /\ last_call.payload.content = RenderedBody(2)

\* The answers of the generative service that are errors: a raised
\* exception (a timeout), a malformed body, a status that is not 2xx.
AugmentationError(resp) ==
  \/ resp.kind \in {"exception", "malformed"}
  \/ resp.kind = "http" /\ (resp.status < 200 \/ resp.status > 299)

\* C12 as claimed: on every augmentation error the augmenter prints the
\* error and returns the empty string.
C12_EveryAugmentationErrorIsLogged ==
  (last_call.op = "personalize_with_ai" /\ openai_api_key
     /\ AugmentationError(last_call.resp)) =>
    /\ body = <<>>
    /\ ai_errors = last_call.ai_errors_before + 1

\* A completion without the white space around it, computed from the
\* positions of its first and last character that is no space.
Trimmed(c) ==
  LET inked == {k \in DOMAIN c : c[k] # " "}
  IN IF inked = {} THEN <<>>
     ELSE SubSeq(c, CHOOSE k \in inked : \A j \in inked : k <= j,
                    CHOOSE k \in inked : \A j \in inked : k >= j)

\* C13: a successful completion comes back as two newlines and then the
\* trimmed completion in at most 200 characters: unchanged when it has at
\* most 200, else its first 197 characters and three dots.
C13_CompletionAtMost200 ==
  (last_call.op = "personalize_with_ai" /\ openai_api_key
     /\ last_call.resp.kind = "http" /\ last_call.resp.status = 200) =>
    LET c == Trimmed(last_call.resp.content)
        part == Tail(body)
    IN /\ body # <<>> /\ Head(body) = "\n\n"
       /\ Len(part) <= 200
       /\ Len(c) <= 200 => part = c
       /\ Len(c) > 200 => part = SubSeq(c, 1, 197) \o <<".", ".", ".">>

C13_Witness ==
  /\ last_call.op = "personalize_with_ai" /\ openai_api_key
  /\ last_call.resp.kind = "http" /\ last_call.resp.status = 200
  /\ Len(last_call.resp.content) = 203
  /\ Len(body) = 201 /\ body[201] = "." /\ body[198] = "x" /\ body[199] = "."

\* The row a log call is to write, from its arguments in the history.
LoggedRow(call) ==
  << <<call[2]>>, <<"Acme">>, <<"Ann">>, <<"Hello">>,
     <<call[3][1]>>, <<call[3][2]>> >>

HeaderCells ==
  << <<"email">>, <<"company">>, <<"first_name">>, <<"subject">>,
     <<"draft_id">>, <<"status">> >>

\* C14: starting with no log file, after n >= 1 log calls the file is the
\* header row and then the n rows of the calls, in call order; a log call
\* adds its row at the end and leaves what was in the file as it was.
C14_HeaderOnceThenRowsInOrder ==
  /\ events = <<>> => log_file = NoFile
  /\ events # <<>> =>
       /\ log_file.exists
       /\ log_file.lines = <<HeaderCells>> \o
                              [k \in DOMAIN events |-> LoggedRow(events[k])]
  /\ last_call.op = "log_result" =>
       /\ Len(log_file.lines) = Len(last_call.log_before.lines) +
                                  (IF last_call.log_before.exists THEN 1 ELSE 2)
       /\ SubSeq(log_file.lines, 1, Len(last_call.log_before.lines)) =
            last_call.log_before.lines

C14_Witness ==
  /\ last_call.op = "log_result"
  /\ Len(events) = 3 /\ Len(log_file.lines) = 4
  /\ events[1][2] # events[2][2] /\ events[2][3] # events[3][3]

\* What a restarted run does, whatever the earlier run left behind: it
\* comes to its sign-in, and once signed in it goes through the contacts
\* from the first one.
RestartedRunStartsOver ==
  run > 1 =>
    /\ pc # "crashed"
    /\ auth_ok = "True" =>
         /\ Len(events) <= Len(ExpectedEvents(0))
         /\ events = SubSeq(ExpectedEvents(0), 1, Len(events))
         /\ requests = CountAll("request")
         /\ Len(DataRows(log_file)) = log_start + CountAll("log")
         /\ pc = "done" =>
              /\ events = ExpectedEvents(0)
              /\ requests = Cardinality(WithEmail)
              /\ [k \in DOMAIN RunRows |-> RowEmail(RunRows[k])] = EmailsFrom(0)

\* A step leaves every line of the log where and as it was.
LogOnlyGrows ==
  /\ Len(log_file'.lines) >= Len(log_file.lines)
  /\ SubSeq(log_file'.lines, 1, Len(log_file.lines)) = log_file.lines

\* C15 as claimed: every run restarted on the same contacts and log, after
\* a complete or an interrupted run, starts the batch over and handles every
\* contact from the first one again, with a request and a further row for
\* each contact with an email, and no step changes or removes a row that is
\* in the log.
C15_RestartReprocessesEverything ==
  [](RestartedRunStartsOver) /\ [][LogOnlyGrows]_vars

\* The contacts this run is through with, in the order it got through.
IsHandling(e) == e[1] \in {"skip", "log"}
HandledIndices ==
  LET h == SelectSeq(events, IsHandling) IN [k \in DOMAIN h |-> h[k][2]]

HandledOnceInOrder == HandledIndices = [k \in 1..Len(HandledIndices) |-> k - 1]

AllHandled == pc = "done" /\ HandledIndices = [k \in 1..Len(contacts) |-> k - 1]

\* C16: once authentication has succeeded the run handles the contacts one
\* by one in list order, each once, and reaches its end with all of them
\* handled, whatever failed on the way.
C16_AuthenticatedBatchTerminates ==
  /\ [](auth_ok = "True" => HandledOnceInOrder)
  /\ (auth_ok = "True") ~> AllHandled

C16_Witness ==
  /\ AllHandled /\ Len(contacts) = 2
  /\ NonStringKey \in DOMAIN contacts[1]
  /\ subject = RawText(SUBJECT_TEXT)
  /\ ai_errors >= 1
  /\ CountAll("skip") = 1
  /\ \E k \in DOMAIN RunRows : RowStatus(RunRows[k]) = "error"

\* The contacts after which the run is to pause.
PausedAfter == {i \in WithEmail : i # Len(contacts) - 1}

\* C17: the run pauses once after a contact that has an email and is not in
\* the last position, and after no other contact; at the end the pauses are
\* as many as those contacts.
C17_PauseIffSubmittedAndNotLast ==
  auth_ok = "True" =>
    /\ \A i \in Indices :
         Count("sleep", i) = (IF i < index /\ i \in PausedAfter THEN 1 ELSE 0)
    /\ pc = "done" =>
         /\ CountAll("sleep") = Cardinality(PausedAfter)
         /\ slept = delay_ms * Cardinality(PausedAfter)

C17_Witness ==
  /\ pc = "done" /\ Len(contacts) = 3
  /\ HasEmail(0) /\ HasEmail(1) /\ ~HasEmail(2)
  /\ CountAll("sleep") = 2 /\ Count("sleep", 1) = 1

\* The positions in the history where a draft request was issued.
RequestAt == {p \in DOMAIN events : events[p][1] = "request"}

\* C18: between two draft requests that follow each other there is exactly
\* one pause, however many contacts without an email lie between them.
C18_OnePauseBetweenRequests ==
  \A p, q \in RequestAt :
    (p < q /\ ~\E m \in RequestAt : p < m /\ m < q) =>
      Cardinality({k \in p + 1 .. q - 1 : events[k][1] = "sleep"}) = 1

C18_Witness ==
  /\ pc = "done" /\ Len(contacts) = 3
  /\ HasEmail(0) /\ ~HasEmail(1) /\ HasEmail(2)
  /\ RequestAt = {1, 5}
  /\ events[3] = <<"sleep", 0>> /\ events[4] = <<"skip", 1>>

\* C19: a contact's request is followed at once by its row and then, if at
\* all, by its pause; the rows are in contact-list order; and at every
\* point the requests issued are the rows written or one more.
C19_SubmitThenLogThenPause ==
  auth_ok = "True" =>
    /\ \A p \in RequestAt :
         /\ p < Len(events) => events[p + 1] = <<"log", events[p][2]>>
         /\ p = Len(events) => pc = "log"
    /\ \A p \in DOMAIN events :
         events[p][1] = "sleep" =>
           (p > 1 /\ events[p - 1] = <<"log", events[p][2]>>)
    /\ \A p \in DOMAIN events :
         events[p][1] = "log" =>
           (p > 1 /\ events[p - 1] = <<"request", events[p][2]>>)
    /\ requests - Len(RunRows) \in {0, 1}
    /\ requests - Len(RunRows) = 1 <=> pc = "log"
    /\ [k \in DOMAIN RunRows |-> RowEmail(RunRows[k])] =
         SubSeq(EmailsFrom(0), 1, Len(RunRows))

C19_Witness ==
  /\ pc = "log" /\ index = 1 /\ Len(contacts) = 3
  /\ requests = 2 /\ Len(RunRows) = 1
  /\ events = <<(<<"request", 0>>), <<"log", 0>>, <<"sleep", 0>>,
                <<"request", 1>>>>

RowDraftId(row) == row[5][1]

\* The row just written has the address and the subject that were
\* submitted, and a status of success only for a request answered 201.
RowIsOfTheRequest(row) ==
  /\ row[1] = <<last_call.payload.address>>
  /\ row[4] = last_call.payload.subject
  /\ RowStatus(row) \in {"success", "error"}
  /\ RowStatus(row) = "success" =>
       (last_call.resp.kind = "http" /\ last_call.resp.status = 201)

\* C20 as claimed: the row just written is the row of the request; every
\* row with status error has an empty draft_id, and every row with status
\* success a non-empty one: the id of the response body, or "unknown" when
\* the body has no id.
C20_DraftIdMatchesStatus ==
  /\ pc = "pace" =>
       LET row == log_file.lines[Len(log_file.lines)]
           resp == last_call.resp
       IN /\ RowIsOfTheRequest(row)
          /\ RowStatus(row) = "success" =>
               /\ RowDraftId(row) # ""
               /\ resp.body = IdBody => RowDraftId(row) = "AAMk-example"
               /\ resp.body = "{}" => RowDraftId(row) = "unknown"
  /\ \A k \in DOMAIN RunRows :
       /\ RowStatus(RunRows[k]) = "error" => RowDraftId(RunRows[k]) = ""
       /\ RowStatus(RunRows[k]) = "success" => RowDraftId(RunRows[k]) # ""

\* C20 as the code has it: the row just written is the row of the request;
\* with status error its draft_id is empty; with status success its
\* draft_id is the id of the response body as text, so empty when that id
\* is the empty string or null, or "unknown" when the body has no id.
C20_DraftIdIsTheReturnedId ==
  /\ pc = "pace" =>
       LET row == log_file.lines[Len(log_file.lines)]
           resp == last_call.resp
       IN /\ RowIsOfTheRequest(row)
          /\ RowStatus(row) = "success" =>
               /\ resp.body = IdBody => RowDraftId(row) = "AAMk-example"
               /\ resp.body = "{}" => RowDraftId(row) = "unknown"
               /\ resp.body \in {EmptyIdBody, NullIdBody} => RowDraftId(row) = ""
               /\ resp.body \in {IdBody, "{}", EmptyIdBody, NullIdBody}
  /\ \A k \in DOMAIN RunRows :
       /\ RowStatus(RunRows[k]) = "error" => RowDraftId(RunRows[k]) = ""
       /\ RowStatus(RunRows[k]) = "success" =>
            RowDraftId(RunRows[k]) \in {"AAMk-example", "unknown", ""}

C20_Witness ==
  /\ pc = "pace" /\ Len(RunRows) = 3
  /\ RowStatus(RunRows[1]) = "error" /\ RowDraftId(RunRows[1]) = ""
  /\ RowStatus(RunRows[2]) = "success" /\ RowDraftId(RunRows[2]) = "unknown"
  /\ RowStatus(RunRows[3]) = "success" /\ RowDraftId(RunRows[3]) = ""
  /\ last_call.resp.body = NullIdBody

====
